---- MODULE Spec2Model ----
(***************************************************************************)
(* A model of neurocombat/algorithm.py (ComBat batch-effect correction).   *)
(*                                                                         *)
(* Python values are represented as follows.                               *)
(*   - a str is the sequence of its characters (<<"a","g","e">> is 'age'), *)
(*     so that list(str) can be modelled by what it does;                  *)
(*   - a column of the covariate table is [kind, vals]: kind "str" when    *)
(*     its cells are str objects, "num" when they are numbers;             *)
(*   - indices and batch codes keep Python's 0-based values; the TLA+      *)
(*     sequences that hold them are 1-based containers;                    *)
(*   - a 2-D array is a sequence of rows.                                  *)
(***************************************************************************)
EXTENDS Integers, Sequences, FiniteSets, TLC

\* ------------------------------------------------------------------ bounds
NumSamples == 4
MaxFeatures == 2

\* ----------------------------------------------------------------- helpers
Range(s) == {s[i] : i \in DOMAIN s}

Abs(n) == IF n < 0 THEN 0 - n ELSE n

RECURSIVE SortedSeq(_)
\* the increasing sequence of a finite set of integers
SortedSeq(S) ==
    IF S = {} THEN <<>>
    ELSE LET m == CHOOSE x \in S : \A y \in S : x <= y
         IN  <<m>> \o SortedSeq(S \ {m})

RECURSIVE SumSeq(_)
SumSeq(s) == IF s = <<>> THEN 0 ELSE Head(s) + SumSeq(Tail(s))

RECURSIVE Concat(_)
\* concatenation of a sequence of sequences
Concat(ss) == IF ss = <<>> THEN <<>> ELSE Head(ss) \o Concat(Tail(ss))

\* --------------------------------------------------- float32 and float()
RECURSIVE Ulp32(_, _)
\* spacing of float32 numbers around the integer magnitude m (p a power of 2)
Ulp32(m, p) == IF m < p * 16777216 THEN p ELSE Ulp32(m, 2 * p)

\* astype('float32') of an integer: round to nearest, ties to even mantissa
Float32(n) ==
    LET m == Abs(n)
        p == Ulp32(m, 1)
        q == m \div p
        r == m % p
        up == IF 2 * r > p THEN 1
              ELSE IF 2 * r < p THEN 0
              ELSE q % 2
        v == (q + up) * p
    IN  IF n < 0 THEN 0 - v ELSE v

\* the str cells of the model, in Python's str order
StrOrder == <<"1", "1.0", "2", "a", "b", "f", "m">>

StrRank(s) == CHOOSE i \in DOMAIN StrOrder : StrOrder[i] = s

\* float(s) succeeds on these literals and raises ValueError on the others
IsFloatLiteral(s) == s \in {"1", "1.0", "2"}

ParseFloat(s) == IF s = "2" THEN 2 ELSE 1

\* covars[:, i].astype('float32') raises ValueError
CastFails(col) ==
    col.kind = "str" /\ \E i \in DOMAIN col.vals : ~IsFloatLiteral(col.vals[i])

\* covars[:, i].astype('float32')
AsFloat32(col) ==
    [kind |-> "num",
     vals |-> [i \in DOMAIN col.vals |->
                 IF col.kind = "num" THEN Float32(col.vals[i])
                 ELSE Float32(ParseFloat(col.vals[i]))]]

\* lines 52-56: try the cast, keep the column when it raises ValueError
TryFloat32(col) == IF CastFails(col) THEN col ELSE AsFloat32(col)

\* ------------------------------------------------------------- np.unique
SortKey(col, v) == IF col.kind = "num" THEN v ELSE StrRank(v)

ColKeys(col) == {SortKey(col, col.vals[i]) : i \in DOMAIN col.vals}

\* np.unique(col): the sorted distinct values
UniqueValues(col) ==
    LET ks == SortedSeq(ColKeys(col))
    IN  [j \in DOMAIN ks |->
           CHOOSE v \in Range(col.vals) : SortKey(col, v) = ks[j]]

\* np.unique(col, return_inverse=True)[-1]: 0-based code of every cell
UniqueInverse(col) ==
    [i \in DOMAIN col.vals |->
       Cardinality({k \in ColKeys(col) : k < SortKey(col, col.vals[i])})]

\* np.unique(col, return_counts=True)[1]
UniqueCounts(col) ==
    LET u == UniqueValues(col)
    IN  [j \in DOMAIN u |->
           Cardinality({i \in DOMAIN col.vals : col.vals[i] = u[j]})]

\* np.where(vals == x)[0]: increasing 0-based positions
WhereEq(vals, x) == SortedSeq({i - 1 : i \in {k \in DOMAIN vals : vals[k] = x}})

\* ------------------------------------------------------ make_design_matrix
\* to_categorical(y, nb_classes): one row per entry of y, a single 1 at
\* column y[i]
to_categorical(y, nb_classes) ==
    LET nb == IF nb_classes = 0
              THEN (CHOOSE m \in Range(y) : \A x \in Range(y) : x <= m) + 1
              ELSE nb_classes
    IN  [i \in DOMAIN y |-> [c \in 1..nb |-> IF c - 1 = y[i] THEN 1 ELSE 0]]

\* M[:, 1:]
DropFirstColumn(M) == [i \in DOMAIN M |-> SubSeq(M[i], 2, Len(M[i]))]

\* lines 149-150: the full one-hot block of the batch column
BatchOneHot(Y, bcol) ==
    LET batch == UniqueInverse(Y[bcol + 1])
    IN  to_categorical(batch, Cardinality(Range(batch)))

\* CatOneHot without the [:, 1:] of line 156
CatOneHotKeepsFirst(Y, cat_col) ==
    LET cat == UniqueInverse(Y[cat_col + 1])
    IN  to_categorical(cat, Cardinality(Range(cat)))

\* lines 155-156: the one-hot block of a categorical column, first level dropped
CatOneHot(Y, cat_col) ==
    LET cat == UniqueInverse(Y[cat_col + 1])
    IN  DropFirstColumn(to_categorical(cat, Cardinality(Range(cat))))

\* lines 161-162: a numerical column cast to float32, reshaped to (S, 1)
NumVector(Y, num_col) ==
    LET num == AsFloat32(Y[num_col + 1]).vals
    IN  [i \in DOMAIN num |-> <<num[i]>>]

\* line 161 raises ValueError (the cast of a str column that is no number)
MakeDesignRaises(Y, nums) == \E k \in DOMAIN nums : CastFails(Y[nums[k] + 1])

\* hstack_list in the order the blocks are appended
DesignBlocks(Y, bcol, cats, nums) ==
    <<BatchOneHot(Y, bcol)>>
    \o [k \in DOMAIN cats |-> CatOneHot(Y, cats[k])]
    \o [k \in DOMAIN nums |-> NumVector(Y, nums[k])]

\* np.hstack(blocks): row i is the concatenation of the blocks' rows i
HStack(blocks) ==
    [i \in DOMAIN blocks[1] |-> Concat([b \in DOMAIN blocks |-> blocks[b][i]])]

make_design_matrix(Y, bcol, cats, nums) == HStack(DesignBlocks(Y, bcol, cats, nums))

\* ------------------------------------------------- integer matrix algebra
NCols(M) == IF M = <<>> THEN 0 ELSE Len(M[1])

\* design.T . design for a design with integer entries
Gram(D) ==
    [a \in 1..NCols(D) |-> [b \in 1..NCols(D) |->
        SumSeq([s \in DOMAIN D |-> D[s][a] * D[s][b]])]]

\* M without row 1 and column j
Minor(M, j) ==
    [r \in 1..(Len(M) - 1) |->
       [c \in 1..(Len(M) - 1) |-> M[r + 1][IF c < j THEN c ELSE c + 1]]]

RECURSIVE Det(_)
\* determinant by expansion along the first row
Det(M) ==
    IF Len(M) = 0 THEN 1
    ELSE IF Len(M) = 1 THEN M[1][1]
    ELSE SumSeq([j \in 1..Len(M) |->
                   (IF j % 2 = 1 THEN 1 ELSE 0 - 1) * M[1][j] * Det(Minor(M, j))])

\* numpy.linalg.inv raises LinAlgError only on an exactly singular matrix
IsSingular(M) == Det(M) = 0

\* ----------------------------------------------------------- array shapes
\* A shape is a tuple of dimensions; BadShape stands for the ValueError numpy
\* raises when the operands of an operation do not fit.
BadShape == <<0 - 1>>

ShapeOf(M) == <<Len(M), NCols(M)>>

\* a.T
ShT(a) ==
    IF a = BadShape THEN BadShape
    ELSE [i \in DOMAIN a |-> a[Len(a) + 1 - i]]

\* np.dot(a, b) for 1-D and 2-D operands
ShDot(a, b) ==
    IF a = BadShape \/ b = BadShape THEN BadShape
    ELSE IF Len(a) = 2 /\ Len(b) = 2
         THEN IF a[2] = b[1] THEN <<a[1], b[2]>> ELSE BadShape
    ELSE IF Len(a) = 1 /\ Len(b) = 2
         THEN IF a[1] = b[1] THEN <<b[2]>> ELSE BadShape
    ELSE IF Len(a) = 2 /\ Len(b) = 1
         THEN IF a[2] = b[1] THEN <<a[1]>> ELSE BadShape
    ELSE BadShape

\* numpy.linalg.inv(a)
ShInv(a) ==
    IF a = BadShape THEN BadShape
    ELSE IF Len(a) = 2 /\ a[1] = a[2] THEN a ELSE BadShape

\* broadcasting of one dimension
BDim(x, y) == IF x = y THEN x ELSE IF x = 1 THEN y ELSE IF y = 1 THEN x ELSE 0 - 1

\* shape of an elementwise operation on operands of shapes a and b
ShBroadcast(a, b) ==
    IF a = BadShape \/ b = BadShape THEN BadShape
    ELSE LET n == IF Len(a) > Len(b) THEN Len(a) ELSE Len(b)
             pa == [i \in 1..n |-> IF i <= n - Len(a) THEN 1 ELSE a[i - (n - Len(a))]]
             pb == [i \in 1..n |-> IF i <= n - Len(b) THEN 1 ELSE b[i - (n - Len(b))]]
             r == [i \in 1..n |-> BDim(pa[i], pb[i])]
         IN  IF \E i \in 1..n : r[i] < 0 THEN BadShape ELSE r

\* a[:, :k] and a[:k, :]
ShColsUpTo(a, k) ==
    IF a = BadShape THEN BadShape ELSE <<a[1], IF k < a[2] THEN k ELSE a[2]>>

ShRowsUpTo(a, k) ==
    IF a = BadShape THEN BadShape ELSE <<IF k < a[1] THEN k ELSE a[1], a[2]>>

\* an in-place operation (a += b, a[...] = b) needs b to broadcast to a
ShInPlace(a, b) == IF ShBroadcast(a, b) = a THEN a ELSE BadShape

\* ------------------------------------------- shapes through the pipeline
\* standardize_across_features(X, design, info_dict), X of shape xs and
\* design of shape ds: the shapes of (s_data, stand_mean, var_pooled)
StandardizeShapes(xs, ds, info) ==
    LET B_hat == ShDot(ShDot(ShInv(ShDot(ShT(ds), ds)), ShT(ds)), ShT(xs))
        grand_mean == ShDot(<<Len(info.sample_per_batch)>>,
                            ShRowsUpTo(B_hat, info.n_batch))
        fitted == ShT(ShDot(ds, B_hat))
        var_pooled == ShDot(ShBroadcast(xs, fitted), <<info.n_sample, 1>>)
        mean0 == IF grand_mean = BadShape THEN BadShape
                 ELSE ShDot(<<grand_mean[1], 1>>, <<1, info.n_sample>>)
        stand_mean == ShInPlace(mean0, ShT(ShDot(ds, B_hat)))
        s_data == ShBroadcast(ShBroadcast(xs, stand_mean),
                              ShDot(var_pooled, <<1, info.n_sample>>))
    IN  [s_data |-> s_data, s_mean |-> stand_mean, v_pool |-> var_pooled]

\* fit_LS_model_and_find_priors(s_data, design, info_dict): the shapes held
\* by LS_dict (delta_hat, a_prior and b_prior are lists, one entry per batch)
FitLSShapes(ss, ds, info) ==
    LET bd == ShColsUpTo(ds, info.n_batch)
        gamma_hat == ShDot(ShDot(ShInv(ShDot(ShT(bd), bd)), ShT(bd)), ShT(ss))
        delta_hat == [i \in DOMAIN info.batch_info |->
                        IF ss = BadShape THEN BadShape ELSE <<ss[1]>>]
        row_stat == IF gamma_hat = BadShape THEN BadShape ELSE <<gamma_hat[1]>>
    IN  [gamma_hat |-> gamma_hat, delta_hat |-> delta_hat,
         gamma_bar |-> row_stat, t2 |-> row_stat,
         a_prior |-> [i \in DOMAIN delta_hat |-> <<>>],
         b_prior |-> [i \in DOMAIN delta_hat |-> <<>>]]

\* it_sol on sdat of shape sd, g_hat of shape gh and d_hat of shape dh:
\* the shape of g_new and of d_new
ItSolShape(sd, gh, dh) ==
    LET n == IF sd = BadShape THEN BadShape ELSE <<sd[1]>>
        g_new == ShBroadcast(ShBroadcast(gh, n), dh)
        outer == IF g_new = BadShape \/ sd = BadShape THEN BadShape
                 ELSE ShDot(<<g_new[1], 1>>, <<1, sd[2]>>)
        sq == ShBroadcast(sd, outer)
        sum2 == IF sq = BadShape THEN BadShape ELSE <<sq[1]>>
        d_new == ShBroadcast(sum2, n)
    IN  <<g_new, d_new>>

\* find_parametric_adjustments(s_data, LS, info_dict): the shapes of
\* (gamma_star, delta_star), np.array of one row per batch
FindAdjustmentsShapes(ss, LS, info) ==
    LET rowOf(a) == IF a = BadShape THEN BadShape ELSE <<a[2]>>
        temp == [i \in DOMAIN info.batch_info |->
                   ItSolShape(IF ss = BadShape THEN BadShape
                              ELSE <<ss[1], Len(info.batch_info[i])>>,
                              rowOf(LS.gamma_hat), LS.delta_hat[i])]
        stack(k) ==
            IF \E i \in DOMAIN temp : temp[i][k] = BadShape \/ temp[i][k] # temp[1][k]
            THEN BadShape
            ELSE IF temp = <<>> THEN <<0>>
            ELSE <<Len(temp)>> \o temp[1][k]
    IN  <<stack(1), stack(2)>>

\* adjust_data_final: the shape of bayesdata
AdjustShape(ss, ds, gs, dls, ms, vs, info) ==
    LET bd == ShColsUpTo(ds, info.n_batch)
        step(j) ==
            LET nj == Len(info.batch_info[j])
                dsq == IF dls = BadShape THEN BadShape ELSE <<dls[2], 1>>
                denom == ShDot(dsq, <<1, info.sample_per_batch[j]>>)
                slice == IF ss = BadShape THEN BadShape ELSE <<ss[1], nj>>
                fit == IF bd = BadShape THEN BadShape
                       ELSE ShT(ShDot(<<nj, bd[2]>>, gs))
                numer == ShBroadcast(slice, fit)
            IN  ShInPlace(slice, ShBroadcast(numer, denom))
        vpsq == IF vs = BadShape THEN BadShape ELSE <<vs[1], 1>>
        scaled == ShBroadcast(ss, ShDot(vpsq, <<1, info.n_sample>>))
    IN  IF \E j \in DOMAIN info.batch_info : step(j) = BadShape
        THEN BadShape
        ELSE ShBroadcast(scaled, ms)

\* ------------------------------------------------------------------ combat
VARIABLES
    arg,              \* the caller's arguments of combat (never assigned)
    pc,               \* the line combat is about to execute
    error,            \* the exception combat raised, "" when none
    calls,            \* the pipeline functions invoked so far, in order
    covar_labels,     \* np.array(covars.columns)
    covars,           \* the object array of covariates, by column
    discrete_cols,    \* after lines 45-46
    continuous_cols,  \* after lines 47-48
    data,             \* [kind, shape] of the local variable data
    col_idx,          \* [batch_col, cat_cols, num_cols] of lines 63-67
    info_dict,        \* the batch summary of lines 75-82
    design,           \* make_design_matrix's result
    shapes,           \* shapes of the arrays the later stages returned
    result,           \* shape of the returned array
    x_data,           \* the values of data after line 60, shape (F, S)
    std,              \* what standardize_across_features returned
    LS_dict,          \* what fit_LS_model_and_find_priors returned
    fpa,              \* the frame of find_parametric_adjustments
    sol,              \* the frame of it_sol
    adj,              \* the frame of adjust_data_final
    out               \* the values of the returned array


\* the arrays of the numerical pipeline
nvars == <<x_data, std, LS_dict, fpa, sol, adj, out>>

vars == <<arg, pc, error, calls, covar_labels, covars, discrete_cols,
          continuous_cols, data, col_idx, info_dict, design, shapes, result,
          nvars>>

\* column names of the covariate tables of the model
ColSite == <<"s", "i", "t", "e">>

ColGroup == <<"g">>

ColAge == <<"a", "g", "e">>

StrLabels == {"1", "1.0", "a"}

NumLabels == {16777216, 16777217}

Samples == 1..NumSamples

\* batch columns: every labelling of the samples, by str or by number
BatchColumns ==
    {[kind |-> "str", vals |-> v] : v \in [Samples -> StrLabels]}
    \cup {[kind |-> "num", vals |-> v] : v \in [Samples -> NumLabels]}

GroupColumn == [kind |-> "str", vals |-> [i \in Samples |-> IF i % 2 = 1 THEN "f" ELSE "m"]]

AgeColumn == [kind |-> "num", vals |-> [i \in Samples |-> i]]

ColArgs(name) ==
    {[kind |-> "list", val |-> <<>>],
     [kind |-> "list", val |-> <<name>>],
     [kind |-> "str", val |-> name]}

DataArgs ==
    {[kind |-> k, shape |-> <<NumSamples, f>>] :
        k \in {"DataFrame", "ndarray", "list"}, f \in 1..MaxFeatures}

Arguments ==
    {[covars |-> [isdf |-> d, labels |-> <<ColSite, ColGroup, ColAge>>,
                  cols |-> <<b, GroupColumn, AgeColumn>>],
      batch_col |-> ColSite, discrete_cols |-> dc, continuous_cols |-> cc,
      data |-> x] :
        d \in BOOLEAN, b \in BatchColumns, dc \in ColArgs(ColGroup),
        cc \in ColArgs(ColAge), x \in DataArgs}

NoInfo == [batch_levels |-> <<>>, n_batch |-> 0, n_sample |-> 0,
           sample_per_batch |-> <<>>, batch_info |-> <<>>]

NoCols == [batch_col |-> 0 - 1, cat_cols |-> <<>>, num_cols |-> <<>>]

NoShapes == [s_data |-> <<>>, s_mean |-> <<>>, v_pool |-> <<>>, LS |-> <<>>,
             gamma_star |-> <<>>, delta_star |-> <<>>, bayes_data |-> <<>>]

NoStd == [s_data |-> <<>>, stand_mean |-> <<>>, var_pooled |-> <<>>]

NoLS == [gamma_hat |-> <<>>, delta_hat |-> <<>>, t2 |-> <<>>, gamma_bar |-> <<>>,
         a_prior |-> <<>>, b_prior |-> <<>>]

NoFpa == [i |-> 0, gamma_star |-> <<>>, delta_star |-> <<>>, solved |-> <<>>]

NoSol == [pc |-> "idle", batch |-> 0, args |-> <<>>, g_old |-> <<>>,
          d_old |-> <<>>, g_new |-> <<>>, d_new |-> <<>>, g_prev |-> <<>>,
          d_prev |-> <<>>, change |-> <<>>, iters |-> 0]

NoAdj == [j |-> 0, bayesdata |-> <<>>, s_data |-> <<>>, gamma_star |-> <<>>,
          delta_star |-> <<>>, stand_mean |-> <<>>, var_pooled |-> <<>>,
          writes |-> <<>>]

\* the numerical arrays are not followed in Spec and SpecDesign
NIdle ==
    /\ x_data = <<>>
    /\ std = NoStd
    /\ LS_dict = NoLS
    /\ fpa = NoFpa
    /\ sol = NoSol
    /\ adj = NoAdj
    /\ out = <<>>

CInit ==
    /\ NIdle
    /\ arg \in Arguments
    /\ pc = "L41"
    /\ error = ""
    /\ calls = <<>>
    /\ covar_labels = <<>>
    /\ covars = <<>>
    /\ discrete_cols = <<>>
    /\ continuous_cols = <<>>
    /\ data = arg.data
    /\ col_idx = NoCols
    /\ info_dict = NoInfo
    /\ design = <<>>
    /\ shapes = NoShapes
    /\ result = <<>>

\* IsDataFrame without the test of line 41
IsDataFrameUnchecked(c) == TRUE

\* isinstance(covars, pd.DataFrame)
IsDataFrame(c) == c.isdf

\* raise: combat stops with the exception e
Raise(e) == pc' = "raised" /\ error' = e

\* lines 41-44
CheckCovarsType ==
    /\ pc = "L41"
    /\ IF IsDataFrame(arg.covars)
       THEN pc' = "L45" /\ error' = error
       ELSE Raise("ValueError: covars must be a pandas DataFrame")
    /\ UNCHANGED <<nvars, arg, calls, covar_labels, covars, discrete_cols,
                   continuous_cols, data, col_idx, info_dict, design, shapes,
                   result>>

\* list(s) of a str s: the list of its characters, each a str of length 1
ListOfStr(s) == [i \in DOMAIN s |-> <<s[i]>>]

\* lines 45-48: anything that is no list or tuple goes through list()
AsColumnList(a) ==
    IF a.kind \in {"list", "tuple"} THEN a.val ELSE ListOfStr(a.val)

NormalizeColumnArgs ==
    /\ pc = "L45"
    /\ discrete_cols' = AsColumnList(arg.discrete_cols)
    /\ continuous_cols' = AsColumnList(arg.continuous_cols)
    /\ pc' = "L50"
    /\ UNCHANGED <<nvars, arg, error, calls, covar_labels, covars, data, col_idx,
                   info_dict, design, shapes, result>>

\* lines 50-56
CoerceCovars ==
    /\ pc = "L50"
    /\ covar_labels' = arg.covars.labels
    /\ covars' = [c \in DOMAIN arg.covars.cols |-> TryFloat32(arg.covars.cols[c])]
    /\ pc' = "L58"
    /\ UNCHANGED <<nvars, arg, error, calls, discrete_cols, continuous_cols, data,
                   col_idx, info_dict, design, shapes, result>>

\* lines 58-60: a DataFrame becomes an ndarray; .T exists on ndarrays only
TransposeData ==
    /\ pc = "L58"
    /\ IF data.kind = "list"
       THEN /\ Raise("AttributeError: 'list' object has no attribute 'T'")
            /\ data' = data
       ELSE /\ data' = [kind |-> "ndarray", shape |-> ShT(data.shape)]
            /\ pc' = "L63"
            /\ error' = error
    /\ UNCHANGED <<nvars, arg, calls, covar_labels, covars, discrete_cols,
                   continuous_cols, col_idx, info_dict, design, shapes, result>>

\* np.where(covar_labels == name)[0]
WhereLabel(labels, name) == WhereEq(labels, name)

\* np.where(covar_labels == name)[0][0] raises IndexError
Unresolved(labels, name) == WhereLabel(labels, name) = <<>>

\* lines 63-67
ResolveColumns ==
    /\ pc = "L63"
    /\ IF \/ Unresolved(covar_labels, arg.batch_col)
          \/ \E k \in DOMAIN discrete_cols : Unresolved(covar_labels, discrete_cols[k])
          \/ \E k \in DOMAIN continuous_cols : Unresolved(covar_labels, continuous_cols[k])
       THEN /\ Raise("IndexError: index 0 is out of bounds")
            /\ col_idx' = col_idx
       ELSE /\ col_idx' =
                 [batch_col |-> WhereLabel(covar_labels, arg.batch_col)[1],
                  cat_cols |-> [k \in DOMAIN discrete_cols |->
                                  WhereLabel(covar_labels, discrete_cols[k])[1]],
                  num_cols |-> [k \in DOMAIN continuous_cols |->
                                  WhereLabel(covar_labels, continuous_cols[k])[1]]]
            /\ pc' = "L70"
            /\ error' = error
    /\ UNCHANGED <<nvars, arg, calls, covar_labels, covars, discrete_cols,
                   continuous_cols, data, info_dict, design, shapes, result>>

\* lines 70-71: the batch column as dense integer codes
BatchCodes(col) == [kind |-> "num", vals |-> UniqueInverse(col)]

\* BatchInfo with the index lists taken for the levels 1..B instead of 0..B-1
BatchInfoOffByOne(codes) ==
    LET batch_levels == UniqueValues(codes)
    IN  [batch_levels |-> batch_levels,
         n_batch |-> Len(batch_levels),
         n_sample |-> Len(codes.vals),
         sample_per_batch |-> UniqueCounts(codes),
         batch_info |-> [j \in DOMAIN batch_levels |-> WhereEq(codes.vals, j)]]

\* lines 73-82, from the relabelled batch column
BatchInfo(codes) ==
    LET batch_levels == UniqueValues(codes)
    IN  [batch_levels |-> batch_levels,
         n_batch |-> Len(batch_levels),
         n_sample |-> Len(codes.vals),
         sample_per_batch |-> UniqueCounts(codes),
         batch_info |-> [j \in DOMAIN batch_levels |->
                           WhereEq(codes.vals, batch_levels[j])]]

\* lines 70-82
BuildBatchInfo ==
    /\ pc = "L70"
    /\ LET codes == BatchCodes(covars[col_idx.batch_col + 1])
       IN  /\ covars' = [covars EXCEPT ![col_idx.batch_col + 1] = codes]
           /\ info_dict' = BatchInfo(codes)
    /\ pc' = "L84"
    /\ UNCHANGED <<nvars, arg, error, calls, covar_labels, discrete_cols,
                   continuous_cols, data, col_idx, design, shapes, result>>

\* HasSingleton testing for empty batches only
HasSingletonZero(info) ==
    \E j \in DOMAIN info.sample_per_batch : info.sample_per_batch[j] = 0

\* any(info_dict['sample_per_batch'] == 1)
HasSingleton(info) ==
    \E j \in DOMAIN info.sample_per_batch : info.sample_per_batch[j] = 1

\* lines 84-85
CheckSingleton ==
    /\ pc = "L84"
    /\ IF HasSingleton(info_dict)
       THEN Raise("ValueError: Cannot have ")
       ELSE pc' = "L90" /\ error' = error
    /\ UNCHANGED <<nvars, arg, calls, covar_labels, covars, discrete_cols,
                   continuous_cols, data, col_idx, info_dict, design, shapes,
                   result>>

\* line 90
CallMakeDesign ==
    /\ pc = "L90"
    /\ calls' = Append(calls, "make_design_matrix")
    /\ IF MakeDesignRaises(covars, col_idx.num_cols)
       THEN /\ Raise("ValueError: could not convert string to float")
            /\ design' = design
       ELSE /\ design' = make_design_matrix(covars, col_idx.batch_col,
                                            col_idx.cat_cols, col_idx.num_cols)
            /\ pc' = "L95"
            /\ error' = error
    /\ UNCHANGED <<nvars, arg, covar_labels, covars, discrete_cols, continuous_cols,
                   data, col_idx, info_dict, shapes, result>>

\* lines 95-96.  inv raises LinAlgError on an exactly singular matrix; in
\* floating point a singular design.T . design may also be inverted to
\* garbage without an exception, so both outcomes are possible.
CallStandardize ==
    /\ pc = "L95"
    /\ calls' = Append(calls, "standardize_across_features")
    /\ \E raises \in (IF IsSingular(Gram(design)) THEN BOOLEAN ELSE {FALSE}) :
         IF raises
         THEN /\ Raise("LinAlgError: Singular matrix")
              /\ shapes' = shapes
         ELSE LET r == StandardizeShapes(data.shape, ShapeOf(design), info_dict)
              IN  /\ shapes' = [shapes EXCEPT !.s_data = r.s_data,
                                              !.s_mean = r.s_mean,
                                              !.v_pool = r.v_pool]
                  /\ pc' = "L101"
                  /\ error' = error
    /\ UNCHANGED <<nvars, arg, covar_labels, covars, discrete_cols, continuous_cols,
                   data, col_idx, info_dict, design, result>>

\* line 101
CallFitLS ==
    /\ pc = "L101"
    /\ calls' = Append(calls, "fit_LS_model_and_find_priors")
    /\ shapes' = [shapes EXCEPT
                    !.LS = FitLSShapes(shapes.s_data, ShapeOf(design), info_dict)]
    /\ pc' = "L106"
    /\ UNCHANGED <<nvars, arg, error, covar_labels, covars, discrete_cols,
                   continuous_cols, data, col_idx, info_dict, design, result>>

\* lines 106-107
CallFindAdjustments ==
    /\ pc = "L106"
    /\ calls' = Append(calls, "find_parametric_adjustments")
    /\ LET r == FindAdjustmentsShapes(shapes.s_data, shapes.LS, info_dict)
       IN  shapes' = [shapes EXCEPT !.gamma_star = r[1], !.delta_star = r[2]]
    /\ pc' = "L112"
    /\ UNCHANGED <<nvars, arg, error, covar_labels, covars, discrete_cols,
                   continuous_cols, data, col_idx, info_dict, design, result>>

\* lines 112-113
CallAdjust ==
    /\ pc = "L112"
    /\ calls' = Append(calls, "adjust_data_final")
    /\ shapes' = [shapes EXCEPT !.bayes_data =
                    AdjustShape(shapes.s_data, ShapeOf(design), shapes.gamma_star,
                                shapes.delta_star, shapes.s_mean, shapes.v_pool,
                                info_dict)]
    /\ pc' = "L115"
    /\ UNCHANGED <<nvars, arg, error, covar_labels, covars, discrete_cols,
                   continuous_cols, data, col_idx, info_dict, design, result>>

\* ReturnedShape without the transposition of line 115
ReturnedShapeNoT(b) == b

\* the shape of np.array(bayes_data).T
ReturnedShape(b) == ShT(b)

\* lines 115-117
Return ==
    /\ pc = "L115"
    /\ result' = ReturnedShape(shapes.bayes_data)
    /\ pc' = "returned"
    /\ UNCHANGED <<nvars, arg, error, calls, covar_labels, covars, discrete_cols,
                   continuous_cols, data, col_idx, info_dict, design, shapes>>

CNext ==
    \/ CheckCovarsType
    \/ NormalizeColumnArgs
    \/ CoerceCovars
    \/ TransposeData
    \/ ResolveColumns
    \/ BuildBatchInfo
    \/ CheckSingleton
    \/ CallMakeDesign
    \/ CallStandardize
    \/ CallFitLS
    \/ CallFindAdjustments
    \/ CallAdjust
    \/ Return

Spec == CInit /\ [][CNext]_vars

\* --------------------------------------- make_design_matrix on its own
\* The specification SpecDesign applies make_design_matrix (line 90) to
\* covariate arrays with two categorical and three numerical columns and
\* to every choice and order of them.
DesignTables ==
    {<<[kind |-> "num", vals |-> b],
       [kind |-> "str", vals |-> g],
       [kind |-> "num", vals |-> [i \in Samples |-> i % 3]],
       [kind |-> "num", vals |-> [i \in Samples |-> i]],
       [kind |-> "num", vals |-> [i \in Samples |-> i * i]],
       [kind |-> "str", vals |-> [i \in Samples |-> IF i = 1 THEN "a" ELSE "b"]]>> :
        b \in [Samples -> 0..1], g \in [Samples -> {"f", "m"}]}

\* lists of at most two distinct column indices drawn from S
IndexLists(S) ==
    {<<>>} \cup {<<a>> : a \in S}
    \cup {<<p[1], p[2]>> : p \in {q \in S \X S : q[1] # q[2]}}

DInit ==
    /\ NIdle
    /\ \E y \in DesignTables :
         /\ covars = [y EXCEPT ![1] = BatchCodes(y[1])]
         /\ info_dict = BatchInfo(BatchCodes(y[1]))
         /\ arg = [covars |-> [isdf |-> TRUE, labels |-> <<>>, cols |-> y],
                   batch_col |-> <<>>,
                   discrete_cols |-> [kind |-> "list", val |-> <<>>],
                   continuous_cols |-> [kind |-> "list", val |-> <<>>],
                   data |-> [kind |-> "ndarray", shape |-> <<1, NumSamples>>]]
    /\ col_idx \in {[batch_col |-> 0, cat_cols |-> c, num_cols |-> n] :
                      c \in IndexLists({1, 2}), n \in IndexLists({3, 4, 5})}
    /\ pc = "L90"
    /\ error = ""
    /\ calls = <<>>
    /\ covar_labels = <<>>
    /\ discrete_cols = <<>>
    /\ continuous_cols = <<>>
    /\ data = arg.data
    /\ design = <<>>
    /\ shapes = NoShapes
    /\ result = <<>>

SpecDesign == DInit /\ [][CallMakeDesign]_vars

\* ------------------------------------------------------ float arithmetic
\* A float is modelled exactly, as a fraction <<n, d>> in lowest terms with
\* d > 0, or as one of IEEE 754's special values, which numpy produces
\* instead of raising: <<1, 0>> is inf, <<-1, 0>> is -inf and <<0, 0>> is
\* nan.  Rounding is not modelled and zero carries no sign.
\* An array is a sequence (1-D) or a sequence of rows (2-D).  Array1 and
\* Array2 are the identity on them: TLC keeps [i \in 1..n |-> e] as a rule
\* it applies anew at every use, and v \o <<>> is the same sequence held
\* as its values.
Array1(v) == v \o <<>>

Array2(A) == [i \in DOMAIN A |-> A[i] \o <<>>] \o <<>>

RECURSIVE GCD(_, _)
GCD(a, b) == IF b = 0 THEN a ELSE GCD(b, a % b)

Sign(n) == IF n > 0 THEN 1 ELSE IF n < 0 THEN 0 - 1 ELSE 0

QNorm(n, d) ==
    IF d = 0 THEN <<Sign(n), 0>>
    ELSE LET g == GCD(Abs(n), Abs(d))
         IN  IF d < 0 THEN <<(0 - n) \div g, (0 - d) \div g>>
             ELSE <<n \div g, d \div g>>

Q(n) == <<n, 1>>

QNaN == <<0, 0>>

QInf == <<1, 0>>

IsNaN(a) == a = QNaN

IsFinite(a) == a[2] # 0

QAdd(a, b) ==
    IF IsNaN(a) \/ IsNaN(b) THEN QNaN
    ELSE IF ~IsFinite(a) /\ ~IsFinite(b) THEN (IF a = b THEN a ELSE QNaN)
    ELSE IF ~IsFinite(a) THEN a
    ELSE IF ~IsFinite(b) THEN b
    ELSE LET g == GCD(a[2], b[2])
         IN  QNorm(a[1] * (b[2] \div g) + b[1] * (a[2] \div g),
                   (a[2] \div g) * b[2])

QSub(a, b) == QAdd(a, <<0 - b[1], b[2]>>)

\* the factors are reduced crosswise before they are multiplied
QMul(a, b) ==
    IF a[1] = 0 \/ b[1] = 0 \/ a[2] = 0 \/ b[2] = 0
    THEN QNorm(Sign(a[1]) * Sign(b[1]), Sign(a[2]) * Sign(b[2]))
    ELSE LET g == GCD(Abs(a[1]), b[2])
             h == GCD(Abs(b[1]), a[2])
         IN  <<(a[1] \div g) * (b[1] \div h), (a[2] \div h) * (b[2] \div g)>>

\* 1 / a: 1/0 is inf, 1/inf is 0, 1/nan is nan
QRecip(a) == IF a[1] < 0 THEN <<0 - a[2], 0 - a[1]>> ELSE <<a[2], a[1]>>

QDiv(a, b) == QMul(a, QRecip(b))

QAbs(a) == <<Abs(a[1]), a[2]>>

RECURSIVE FracLess(_, _, _, _)
\* n1/d1 < n2/d2 for d1, d2 > 0, by the integer parts and then the
\* reciprocals of the remainders
FracLess(n1, d1, n2, d2) ==
    IF n1 \div d1 # n2 \div d2 THEN n1 \div d1 < n2 \div d2
    ELSE IF n2 % d2 = 0 THEN FALSE
    ELSE IF n1 % d1 = 0 THEN TRUE
    ELSE FracLess(d2, n2 % d2, d1, n1 % d1)

\* a < b; every comparison with nan is false
QLess(a, b) ==
    /\ ~IsNaN(a)
    /\ ~IsNaN(b)
    /\ a # b
    /\ IF ~IsFinite(a) THEN a[1] < 0
       ELSE IF ~IsFinite(b) THEN b[1] > 0
       ELSE FracLess(a[1], a[2], b[1], b[2])

QGreater(a, b) == QLess(b, a)

QLeq(a, b) == ~IsNaN(a) /\ ~IsNaN(b) /\ ~QLess(b, a)

\* the integer square root of n >= 0, rounded down
ISqrt(n) == CHOOSE r \in 0..n : r * r <= n /\ (r + 1) * (r + 1) > n

\* np.sqrt has an exact value in the model when its argument is special,
\* negative or the square of a fraction
SqrtExact(a) ==
    \/ ~IsFinite(a)
    \/ a[1] < 0
    \/ /\ ISqrt(a[1]) * ISqrt(a[1]) = a[1]
       /\ ISqrt(a[2]) * ISqrt(a[2]) = a[2]

\* np.sqrt(a): nan for nan and for negative arguments, inf for inf
QSqrt(a) ==
    IF IsNaN(a) \/ a[1] < 0 THEN QNaN
    ELSE IF ~IsFinite(a) THEN QInf
    ELSE <<ISqrt(a[1]), ISqrt(a[2])>>

\* Python's max(a, b) of two floats: b only when b > a
PyMax(a, b) == IF QGreater(b, a) THEN b ELSE a

RECURSIVE QSum(_)
\* the sum of a sequence of floats
QSum(v) == IF v = <<>> THEN Q(0) ELSE QAdd(Head(v), QSum(Tail(v)))

\* v.max() of a 1-D array: nan when any entry is nan
NpMax(v) ==
    IF \E i \in DOMAIN v : IsNaN(v[i]) THEN QNaN
    ELSE CHOOSE m \in Range(v) : \A x \in Range(v) : ~QLess(m, x)

\* np.mean(v)
NpMean(v) == QDiv(QSum(v), Q(Len(v)))

\* np.var(v, ddof=1)
NpVar1(v) ==
    LET m == NpMean(v)
    IN  QDiv(QSum(Array1([i \in DOMAIN v |-> QMul(QSub(v[i], m), QSub(v[i], m))])),
             Q(Len(v) - 1))

\* ------------------------------------------------------- float matrices
QMat(M) ==
    Array2([i \in DOMAIN M |-> [j \in DOMAIN M[i] |-> Q(M[i][j])]])

\* A.T
MT(A) ==
    Array2([j \in 1..NCols(A) |-> [i \in DOMAIN A |-> A[i][j]]])

\* np.dot(A, B) of two 2-D arrays
MDot(A, B) ==
    Array2([i \in DOMAIN A |-> [j \in 1..NCols(B) |->
        QSum(Array1([k \in DOMAIN B |-> QMul(A[i][k], B[k][j])]))]])

\* np.dot(v, B) of a 1-D and a 2-D array
VDot(v, B) ==
    Array1([j \in 1..NCols(B) |->
              QSum(Array1([k \in DOMAIN B |-> QMul(v[k], B[k][j])]))])

\* elementwise operations on arrays of one shape
MSub(A, B) ==
    Array2([i \in DOMAIN A |-> [j \in DOMAIN A[i] |-> QSub(A[i][j], B[i][j])]])

MAdd(A, B) ==
    Array2([i \in DOMAIN A |-> [j \in DOMAIN A[i] |-> QAdd(A[i][j], B[i][j])]])

MMul(A, B) ==
    Array2([i \in DOMAIN A |-> [j \in DOMAIN A[i] |-> QMul(A[i][j], B[i][j])]])

MDiv(A, B) ==
    Array2([i \in DOMAIN A |-> [j \in DOMAIN A[i] |-> QDiv(A[i][j], B[i][j])]])

MSquare(A) == MMul(A, A)

MSqrt(A) ==
    Array2([i \in DOMAIN A |-> [j \in DOMAIN A[i] |-> QSqrt(A[i][j])]])

\* np.ones((r, c))
Ones(r, c) ==
    Array2([i \in 1..r |-> [j \in 1..c |-> Q(1)]])

\* v.reshape((len(v), 1))
AsColumn(v) == Array2([i \in DOMAIN v |-> <<v[i]>>])

\* A[:, idxs] for a list of 0-based column indices
TakeCols(A, idxs) ==
    Array2([i \in DOMAIN A |-> [k \in DOMAIN idxs |-> A[i][idxs[k] + 1]]])

\* TakeRows with row 0 taken for every index
TakeRowsFirst(A, idxs) == Array2([k \in DOMAIN idxs |-> A[1]])

\* A[idxs, :] for a list of 0-based row indices
TakeRows(A, idxs) == Array2([k \in DOMAIN idxs |-> A[idxs[k] + 1]])

\* A[:, :n]
ColsUpTo(A, n) == Array2([i \in DOMAIN A |-> SubSeq(A[i], 1, n)])

\* A without row i and column j
QMinor(A, i, j) ==
    Array2([r \in 1..(Len(A) - 1) |->
              [c \in 1..(Len(A) - 1) |->
                 A[IF r < i THEN r ELSE r + 1][IF c < j THEN c ELSE c + 1]]])

RECURSIVE QDet(_)
QDet(A) ==
    IF Len(A) = 0 THEN Q(1)
    ELSE IF Len(A) = 1 THEN A[1][1]
    ELSE QSum(Array1([j \in 1..Len(A) |->
                 QMul(QMul(Q(IF j % 2 = 1 THEN 1 ELSE 0 - 1), A[1][j]),
                      QDet(QMinor(A, 1, j)))]))

\* numpy.linalg.inv(A), A not singular: the adjugate over the determinant
QInv(A) ==
    Array2([i \in DOMAIN A |-> [j \in DOMAIN A |->
        QDiv(QMul(Q(IF (i + j) % 2 = 0 THEN 1 ELSE 0 - 1), QDet(QMinor(A, j, i))),
             QDet(A))]])

\* ----------------------------------------- standardize_across_features
\* lines 183-202, for X of shape (F, S)
standardize_across_features(X, D, info) ==
    LET n_batch == info.n_batch
        n_sample == info.n_sample
        B_hat == MDot(MDot(QInv(MDot(MT(D), D)), MT(D)), MT(X))
        grand_mean == VDot(Array1([j \in DOMAIN info.sample_per_batch |->
                                     QDiv(Q(info.sample_per_batch[j]), Q(n_sample))]),
                           SubSeq(B_hat, 1, n_batch))
        var_pooled == MDot(MSquare(MSub(X, MT(MDot(D, B_hat)))),
                           MDiv(Ones(n_sample, 1),
                                Array2([i \in 1..n_sample |-> <<Q(n_sample)>>])))
        mean0 == MDot(AsColumn(grand_mean), Ones(1, n_sample))
        tmp == Array2([i \in DOMAIN D |-> [j \in DOMAIN D[i] |->
                         IF j <= n_batch THEN Q(0) ELSE D[i][j]]])
        stand_mean == MAdd(mean0, MT(MDot(tmp, B_hat)))
        s_data == MDiv(MSub(X, stand_mean),
                       MDot(MSqrt(var_pooled), Ones(1, n_sample)))
    IN  [s_data |-> s_data, stand_mean |-> stand_mean, var_pooled |-> var_pooled]

\* ------------------------------------------------ priors (lines 205-301)
aprior(gamma_hat) ==
    LET m == NpMean(gamma_hat)
        s2 == NpVar1(gamma_hat)
    IN  QDiv(QAdd(QMul(Q(2), s2), QMul(m, m)), s2)

bprior(gamma_hat) ==
    LET m == NpMean(gamma_hat)
        s2 == NpVar1(gamma_hat)
    IN  QDiv(QAdd(QMul(m, s2), QMul(m, QMul(m, m))), s2)

\* np.mean(A, axis=1) and np.var(A, axis=1, ddof=1): one value per row
MeanAxis1(A) == Array1([i \in DOMAIN A |-> NpMean(A[i])])

VarAxis1(A) == Array1([i \in DOMAIN A |-> NpVar1(A[i])])

fit_LS_model_and_find_priors(s_data, D, info) ==
    LET batch_design == ColsUpTo(D, info.n_batch)
        gamma_hat == MDot(MDot(QInv(MDot(MT(batch_design), batch_design)),
                               MT(batch_design)),
                          MT(s_data))
        delta_hat == Array1([i \in DOMAIN info.batch_info |->
                               VarAxis1(TakeCols(s_data, info.batch_info[i]))])
    IN  [gamma_hat |-> gamma_hat,
         delta_hat |-> delta_hat,
         t2 |-> VarAxis1(gamma_hat),
         gamma_bar |-> MeanAxis1(gamma_hat),
         a_prior |-> Array1([i \in DOMAIN delta_hat |-> aprior(delta_hat[i])]),
         b_prior |-> Array1([i \in DOMAIN delta_hat |-> bprior(delta_hat[i])])]

\* --------------------------------------------- solver (lines 235-340)
\* postmean and postvar on scalars; it_sol applies them per feature
postmean(g_hat, g_bar, n, d_star, t2) ==
    QDiv(QAdd(QMul(QMul(t2, n), g_hat), QMul(d_star, g_bar)),
         QAdd(QMul(t2, n), d_star))

postvar(sum2, n, a, b) ==
    QDiv(QAdd(QMul(<<1, 2>>, sum2), b),
         QSub(QAdd(QDiv(n, Q(2)), a), Q(1)))

\* line 322: the number of entries of each row of sdat that are not nan
CountNotNaN(sdat) ==
    Array1([f \in DOMAIN sdat |->
              Q(Cardinality({k \in DOMAIN sdat[f] : ~IsNaN(sdat[f][k])}))])

\* lines 328-331: one pass of the loop body from d_old
ItSolStep(a, d_old) ==
    LET n == CountNotNaN(a.sdat)
        g_new == Array1([f \in DOMAIN a.g_hat |->
                           postmean(a.g_hat[f], a.g_bar, n[f], d_old[f], a.t2)])
        resid == MSub(a.sdat,
                      MDot(AsColumn(g_new), Ones(1, NCols(a.sdat))))
        sum2 == Array1([f \in DOMAIN resid |-> QSum(MSquare(resid)[f])])
        d_new == Array1([f \in DOMAIN sum2 |-> postvar(sum2[f], n[f], a.a, a.b)])
    IN  [g_new |-> g_new, d_new |-> d_new]

\* abs(new - old) / old, elementwise (lines 333-334)
RelChange(new, old) ==
    Array1([f \in DOMAIN new |-> QDiv(QAbs(QSub(new[f], old[f])), old[f])])

\* lines 333-334
Change(g_new, g_old, d_new, d_old) ==
    PyMax(NpMax(RelChange(g_new, g_old)), NpMax(RelChange(d_new, d_old)))

\* ------------------------------------------- the pipeline on array values
\* The actions below follow lines 95-117 of combat and the functions they
\* call on the values of the arrays.  An array value is followed only
\* while every square root taken of it is exact (SqrtExact).  A call of
\* it_sol is followed for at most MaxIter passes of its loop, and only
\* while the numerators and denominators it starts a pass with are at most
\* MaxTerm, which keeps the exact fractions within TLC's integers.
MaxIter == 2

MaxTerm == 100

AllFit(v) == \A i \in DOMAIN v : Abs(v[i][1]) <= MaxTerm /\ v[i][2] <= MaxTerm

\* the variables of combat these actions leave alone
cfixed == <<arg, calls, covar_labels, covars, discrete_cols, continuous_cols,
            data, col_idx, info_dict, design, shapes, result>>

\* it_sol's default tolerance (line 304)
conv == <<1, 10000>>

AllSqrtExact(A) == \A i \in DOMAIN A : \A j \in DOMAIN A[i] : SqrtExact(A[i][j])

\* line 95: standardize_across_features(data, design, info_dict)
Standardize ==
    /\ pc = "L95"
    /\ IF IsSingular(Gram(design))
       THEN /\ Raise("LinAlgError: Singular matrix")
            /\ std' = std
       ELSE LET r == standardize_across_features(x_data, QMat(design), info_dict)
            IN  /\ AllSqrtExact(r.var_pooled)
                /\ std' = r
                /\ pc' = "L101"
                /\ error' = error
    /\ UNCHANGED <<cfixed, x_data, LS_dict, fpa, sol, adj, out>>

\* line 101: fit_LS_model_and_find_priors(s_data, design, info_dict)
FitLS ==
    /\ pc = "L101"
    /\ LS_dict' = fit_LS_model_and_find_priors(std.s_data, QMat(design), info_dict)
    /\ pc' = "L106"
    /\ UNCHANGED <<cfixed, error, x_data, std, fpa, sol, adj, out>>

\* lines 106, 356-358: find_parametric_adjustments is entered
EnterFindAdjustments ==
    /\ pc = "L106"
    /\ fpa' = [i |-> 1, gamma_star |-> <<>>, delta_star |-> <<>>, solved |-> <<>>]
    /\ pc' = "fpa"
    /\ UNCHANGED <<cfixed, error, x_data, std, LS_dict, sol, adj, out>>

\* SolverArgs with the priors and estimates of the first batch for every batch
SolverArgsFirstBatch(s_data, LS, info, i) ==
    [sdat |-> TakeCols(s_data, info.batch_info[i]),
     g_hat |-> LS.gamma_hat[1],
     d_hat |-> LS.delta_hat[1],
     g_bar |-> LS.gamma_bar[1],
     t2 |-> LS.t2[1],
     a |-> LS.a_prior[1],
     b |-> LS.b_prior[1],
     conv |-> conv]

\* lines 360-362: the arguments it_sol gets for the i-th batch
SolverArgs(s_data, LS, info, i) ==
    [sdat |-> TakeCols(s_data, info.batch_info[i]),
     g_hat |-> LS.gamma_hat[i],
     d_hat |-> LS.delta_hat[i],
     g_bar |-> LS.gamma_bar[i],
     t2 |-> LS.t2[i],
     a |-> LS.a_prior[i],
     b |-> LS.b_prior[i],
     conv |-> conv]

\* lines 322-326: it_sol's frame before the loop
ItSolEntered(a, i) ==
    [pc |-> "loop", batch |-> i, args |-> a, g_old |-> a.g_hat, d_old |-> a.d_hat,
     g_new |-> <<>>, d_new |-> <<>>, g_prev |-> <<>>, d_prev |-> <<>>,
     change |-> Q(1), iters |-> 0]

\* lines 359-362: the call of it_sol for the next batch
CallItSol ==
    /\ pc = "fpa"
    /\ sol.pc = "idle"
    /\ fpa.i <= Len(info_dict.batch_info)
    /\ sol' = ItSolEntered(SolverArgs(std.s_data, LS_dict, info_dict, fpa.i), fpa.i)
    /\ UNCHANGED <<cfixed, pc, error, x_data, std, LS_dict, fpa, adj, out>>

\* line 327: while change > conv
LoopAgain(change, tol) == QGreater(change, tol)

\* lines 327-336: one pass of it_sol's loop
ItSolIter ==
    /\ sol.pc = "loop"
    /\ LoopAgain(sol.change, sol.args.conv)
    /\ sol.iters < MaxIter
    /\ AllFit(sol.g_old) /\ AllFit(sol.d_old)
    /\ AllFit(<<sol.args.g_bar, sol.args.t2, sol.args.a, sol.args.b>>)
    /\ LET r == ItSolStep(sol.args, sol.d_old)
       IN  sol' = [sol EXCEPT
                     !.g_new = r.g_new,
                     !.d_new = r.d_new,
                     !.change = Change(r.g_new, sol.g_old, r.d_new, sol.d_old),
                     !.g_prev = sol.g_old,
                     !.d_prev = sol.d_old,
                     !.g_old = r.g_new,
                     !.d_old = r.d_new,
                     !.iters = sol.iters + 1]
    /\ UNCHANGED <<cfixed, pc, error, x_data, std, LS_dict, fpa, adj, out>>

\* lines 327, 338-340: the loop is left and (g_new, d_new) returned
ItSolReturn ==
    /\ sol.pc = "loop"
    /\ ~LoopAgain(sol.change, sol.args.conv)
    /\ sol' = [sol EXCEPT !.pc = "returned"]
    /\ UNCHANGED <<cfixed, pc, error, x_data, std, LS_dict, fpa, adj, out>>

\* lines 364-365: the pair it_sol returned is appended; solved records the
\* batch whose call returned it
CollectAdjustment ==
    /\ pc = "fpa"
    /\ sol.pc = "returned"
    /\ fpa' = [i |-> fpa.i + 1,
               gamma_star |-> Append(fpa.gamma_star, sol.g_new),
               delta_star |-> Append(fpa.delta_star, sol.d_new),
               solved |-> Append(fpa.solved, sol.batch)]
    /\ sol' = [sol EXCEPT !.pc = "idle"]
    /\ UNCHANGED <<cfixed, pc, error, x_data, std, LS_dict, adj, out>>

\* line 367: find_parametric_adjustments returns
ReturnAdjustments ==
    /\ pc = "fpa"
    /\ sol.pc = "idle"
    /\ fpa.i > Len(info_dict.batch_info)
    /\ pc' = "L112"
    /\ UNCHANGED <<cfixed, error, x_data, std, LS_dict, fpa, sol, adj, out>>

\* lines 387-396: adjust_data_final's frame before its loop; bayesdata is
\* the caller's s_data itself, not a copy
AdjustEntered(s_data, gamma_star, delta_star, stand_mean, var_pooled) ==
    [j |-> 1, bayesdata |-> s_data, s_data |-> s_data,
     gamma_star |-> gamma_star, delta_star |-> delta_star,
     stand_mean |-> stand_mean, var_pooled |-> var_pooled,
     writes |-> [f \in DOMAIN s_data |-> [k \in DOMAIN s_data[f] |-> 0]]]

\* line 112
EnterAdjust ==
    /\ pc = "L112"
    /\ adj' = AdjustEntered(std.s_data, fpa.gamma_star, fpa.delta_star,
                            std.stand_mean, std.var_pooled)
    /\ pc' = "adj"
    /\ UNCHANGED <<cfixed, error, x_data, std, LS_dict, fpa, sol, out>>

\* the 0-based sample indices the loop pass for batch j assigns (line 405)
WrittenSamples(info, j) == Range(info.batch_info[j])

\* lines 399-405: the array bayesdata after the loop pass for batch j
AdjustStep(bayesdata, D, gamma_star, delta_star, info, j) ==
    LET batch_idxs == info.batch_info[j]
        batch_design == ColsUpTo(D, info.n_batch)
        dsq == AsColumn(Array1([f \in DOMAIN delta_star[j] |->
                                  QSqrt(delta_star[j][f])]))
        denom == MDot(dsq, Ones(1, info.sample_per_batch[j]))
        numer == MSub(TakeCols(bayesdata, batch_idxs),
                      MT(MDot(TakeRows(batch_design, batch_idxs), gamma_star)))
        value == MDiv(numer, denom)
        pos(k) == CHOOSE n \in DOMAIN batch_idxs : batch_idxs[n] = k - 1
    IN  Array2([f \in DOMAIN bayesdata |-> [k \in DOMAIN bayesdata[f] |->
                  IF k - 1 \in WrittenSamples(info, j)
                  THEN value[f][pos(k)]
                  ELSE bayesdata[f][k]]])

\* lines 398-405: one pass of adjust_data_final's loop
AdjustBatch ==
    /\ pc = "adj"
    /\ adj.j <= Len(info_dict.batch_info)
    /\ \A f \in DOMAIN adj.delta_star[adj.j] : SqrtExact(adj.delta_star[adj.j][f])
    /\ LET b == AdjustStep(adj.bayesdata, QMat(design), adj.gamma_star,
                           adj.delta_star, info_dict, adj.j)
       IN  /\ adj' = [adj EXCEPT
                        !.bayesdata = b,
                        !.j = adj.j + 1,
                        !.writes = [f \in DOMAIN adj.writes |->
                                      [k \in DOMAIN adj.writes[f] |->
                                         IF k - 1 \in WrittenSamples(info_dict, adj.j)
                                         THEN adj.writes[f][k] + 1
                                         ELSE adj.writes[f][k]]]]
           /\ std' = [std EXCEPT !.s_data = b]
    /\ UNCHANGED <<cfixed, pc, error, x_data, LS_dict, fpa, sol, out>>

\* lines 407-408
Rescale(bayesdata, var_pooled, stand_mean, n_sample) ==
    LET vpsq == AsColumn(Array1([f \in DOMAIN var_pooled |->
                                   QSqrt(var_pooled[f][1])]))
    IN  MAdd(MMul(bayesdata, MDot(vpsq, Ones(1, n_sample))), stand_mean)

\* lines 407-410: the rescaling, and the return to combat
AdjustRescale ==
    /\ pc = "adj"
    /\ adj.j > Len(info_dict.batch_info)
    /\ AllSqrtExact(adj.var_pooled)
    /\ adj' = [adj EXCEPT !.bayesdata =
                 Rescale(adj.bayesdata, adj.var_pooled, adj.stand_mean,
                         info_dict.n_sample)]
    /\ pc' = "L115"
    /\ UNCHANGED <<cfixed, error, x_data, std, LS_dict, fpa, sol, out>>

\* lines 115-117
ReturnData ==
    /\ pc = "L115"
    /\ out' = MT(adj.bayesdata)
    /\ pc' = "returned"
    /\ UNCHANGED <<cfixed, error, x_data, std, LS_dict, fpa, sol, adj>>

\* ------------------------------------------------ specifications on values
\* batch columns in which no batch has a single sample (lines 84-85 let no
\* other through)
BatchAssignments ==
    {b \in [Samples -> 0..1] :
        \A x \in 0..1 : Cardinality({i \in Samples : b[i] = x}) # 1}

\* the state of combat's own variables at line 95 for the batch column b
\* alone and data of F features
AtLine95(b, F) ==
    LET col == [kind |-> "num", vals |-> b]
    IN  /\ covars = <<BatchCodes(col)>>
        /\ info_dict = BatchInfo(BatchCodes(col))
        /\ design = make_design_matrix(<<BatchCodes(col)>>, 0, <<>>, <<>>)
        /\ col_idx = [batch_col |-> 0, cat_cols |-> <<>>, num_cols |-> <<>>]
        /\ arg = [covars |-> [isdf |-> TRUE, labels |-> <<ColSite>>, cols |-> <<col>>],
                  batch_col |-> ColSite,
                  discrete_cols |-> [kind |-> "list", val |-> <<>>],
                  continuous_cols |-> [kind |-> "list", val |-> <<>>],
                  data |-> [kind |-> "ndarray", shape |-> <<NumSamples, F>>]]
        /\ data = [kind |-> "ndarray", shape |-> <<F, NumSamples>>]
        /\ covar_labels = <<ColSite>>
        /\ discrete_cols = <<>>
        /\ continuous_cols = <<>>
        /\ error = ""
        /\ calls = <<>>
        /\ shapes = NoShapes
        /\ result = <<>>

\* rows of data over the samples: two alternating rows, one that rises and
\* one that is constant
DataRows ==
    {[k \in Samples |-> Q(2 * (k % 2))],
     [k \in Samples |-> Q(4 * (k % 2) - 1)],
     [k \in Samples |-> Q(k)],
     [k \in Samples |-> Q(3)]}

\* arrays of shape (F, S), F up to MaxFeatures
DataArrays == UNION {[1..F -> DataRows] : F \in 1..MaxFeatures}

\* ---- SpecPipe: combat from line 95 on, on the values of data
PInit ==
    /\ \E b \in BatchAssignments, X \in DataArrays :
         /\ AtLine95(b, Len(X))
         /\ x_data = X
    /\ pc = "L95"
    /\ std = NoStd
    /\ LS_dict = NoLS
    /\ fpa = NoFpa
    /\ sol = NoSol
    /\ adj = NoAdj
    /\ out = <<>>

SpecPipe ==
    PInit /\ [][\/ Standardize
                 \/ FitLS
                 \/ EnterFindAdjustments
                 \/ CallItSol
                 \/ ItSolIter
                 \/ ItSolReturn
                 \/ CollectAdjustment
                 \/ ReturnAdjustments
                 \/ EnterAdjust
                 \/ AdjustBatch
                 \/ AdjustRescale
                 \/ ReturnData]_vars

\* ---- SpecEB: lines 101-106 of combat (fit_LS_model_and_find_priors, then
\* find_parametric_adjustments with its calls of it_sol) from standardized data
EInit ==
    /\ \E b \in BatchAssignments, X \in DataArrays :
         /\ AtLine95(b, Len(X))
         /\ x_data = X
         /\ std = [s_data |-> X, stand_mean |-> <<>>, var_pooled |-> <<>>]
    /\ pc = "L101"
    /\ LS_dict = NoLS
    /\ fpa = NoFpa
    /\ sol = NoSol
    /\ adj = NoAdj
    /\ out = <<>>

SpecEB ==
    EInit /\ [][\/ FitLS
                 \/ EnterFindAdjustments
                 \/ CallItSol
                 \/ ItSolIter
                 \/ ItSolReturn
                 \/ CollectAdjustment
                 \/ ReturnAdjustments]_vars

\* ---- SpecSol: it_sol on its own
\* the arguments of one call: F features and NumSamples samples, the data
\* row alternating -1, 1
SolverInputs ==
    UNION {
      {[sdat |-> [f \in 1..F |-> [k \in Samples |-> Q(2 * (k % 2) - 1)]],
        g_hat |-> [f \in 1..F |-> IF f = 1 THEN g1 ELSE g2],
        d_hat |-> [f \in 1..F |-> d],
        g_bar |-> gb,
        t2 |-> Q(1),
        a |-> a,
        b |-> b,
        conv |-> conv] :
          g1 \in {Q(0 - 1), Q(1)}, g2 \in {Q(0 - 1), Q(0)},
          d \in {Q(3), Q(1)},
          gb \in {QNorm(NumSamples, 3), Q(0)},
          a \in {Q(1), Q(2), QInf},
          b \in {Q(NumSamples), Q(1)}} :
      F \in 1..MaxFeatures}

SInit ==
    /\ \E a \in SolverInputs : sol = ItSolEntered(a, 1)
    /\ x_data = <<>>
    /\ std = NoStd
    /\ LS_dict = NoLS
    /\ fpa = NoFpa
    /\ adj = NoAdj
    /\ out = <<>>
    /\ pc = "fpa"
    /\ error = ""
    /\ calls = <<>>
    /\ arg = <<>>
    /\ covar_labels = <<>>
    /\ covars = <<>>
    /\ discrete_cols = <<>>
    /\ continuous_cols = <<>>
    /\ data = <<>>
    /\ col_idx = NoCols
    /\ info_dict = NoInfo
    /\ design = <<>>
    /\ shapes = NoShapes
    /\ result = <<>>

SpecSol == SInit /\ [][ItSolIter \/ ItSolReturn]_vars

\* ---- SpecAdj: adjust_data_final on its own
\* a row of gamma_star: x for the first feature, f / 2 for every other
GammaRows(F) ==
    {[f \in 1..F |-> IF f = 1 THEN x ELSE QNorm(f, 2)] :
        x \in {Q(1), <<0 - 1, 2>>, QNaN}}

DeltaValues == {Q(1), <<1, 4>>}

\* delta_star of B batches: x and y alternate over its entries
DeltaArrays(B, F) ==
    {[j \in 1..B |-> [f \in 1..F |-> IF (j + f) % 2 = 0 THEN x ELSE y]] :
        x \in DeltaValues, y \in DeltaValues}

AInit ==
    /\ \E b \in BatchAssignments, F \in 1..MaxFeatures :
         /\ AtLine95(b, F)
         /\ \E s \in {[f \in 1..F |-> [k \in Samples |-> Q(k + f)]]},
               g \in [1..info_dict.n_batch -> GammaRows(F)],
               d \in DeltaArrays(info_dict.n_batch, F) :
              /\ std = [s_data |-> s,
                        stand_mean |-> [f \in 1..F |-> [k \in Samples |-> Q(f)]],
                        var_pooled |-> [f \in 1..F |-> <<Q(4)>>]]
              /\ fpa = [i |-> info_dict.n_batch + 1, gamma_star |-> g,
                        delta_star |-> d,
                        solved |-> [i \in 1..info_dict.n_batch |-> i]]
              /\ adj = AdjustEntered(s, g, d, std.stand_mean, std.var_pooled)
    /\ pc = "adj"
    /\ x_data = <<>>
    /\ LS_dict = NoLS
    /\ sol = NoSol
    /\ out = <<>>

SpecAdj == AInit /\ [][AdjustBatch \/ AdjustRescale]_vars

\* =================================================================== claims
InputShape == arg.data.shape

\* C1: whenever combat returns, the returned array has the shape (S, F) of
\* the input data, sample-major, whatever the batches and covariates.
C1_ShapePreserved ==
    pc = "returned" =>
        /\ result = InputShape
        /\ result[1] = NumSamples
        /\ result[2] \in 1..MaxFeatures

\* C1 witness: a call with two batches, a discrete and a continuous
\* covariate and more samples than features has returned.
C1_Witness ==
    /\ pc = "returned"
    /\ info_dict.n_batch = 2
    /\ Len(col_idx.cat_cols) = 1
    /\ Len(col_idx.num_cols) = 1
    /\ result[1] # result[2]

\* the batch labels the caller passed
InputLabels == arg.covars.cols[1]

InfoBuilt == pc \in {"L84", "L90", "L95", "L101", "L106", "L112", "L115", "returned"}
             \/ (pc = "raised" /\ info_dict # NoInfo)

\* the index lists of BatchInfo partition the sample indices 0..S-1
IsPartition(info) ==
    /\ \A s \in 0..(NumSamples - 1) :
         Cardinality({j \in DOMAIN info.batch_info :
                         s \in Range(info.batch_info[j])}) = 1
    /\ \A j \in DOMAIN info.batch_info :
         /\ info.batch_info[j] # <<>>
         /\ Range(info.batch_info[j]) \subseteq 0..(NumSamples - 1)
         /\ Cardinality(Range(info.batch_info[j])) = Len(info.batch_info[j])
         /\ info.sample_per_batch[j] = Len(info.batch_info[j])
    /\ Len(info.sample_per_batch) = Len(info.batch_info)
    /\ info.n_batch = Len(info.batch_info)
    /\ info.n_sample = NumSamples

\* C2 as claimed: BatchInfo is a partition of the sample indices and n_batch
\* is the number of distinct batch labels the caller gave.
C2_PartitionOfInputLabels ==
    InfoBuilt =>
        /\ IsPartition(info_dict)
        /\ info_dict.n_batch = Cardinality(Range(InputLabels.vals))

\* the number a label stands for once the batch column went through float32
LabelNumber(v) ==
    IF InputLabels.kind = "num" THEN Float32(v) ELSE Float32(ParseFloat(v))

LabelsAreNumbers ==
    \/ InputLabels.kind = "num"
    \/ \A i \in Samples : IsFloatLiteral(InputLabels.vals[i])

\* two samples carry the same batch label after the coercion of lines 52-56
SameCoercedLabel(i, j) ==
    IF LabelsAreNumbers
    THEN LabelNumber(InputLabels.vals[i]) = LabelNumber(InputLabels.vals[j])
    ELSE InputLabels.vals[i] = InputLabels.vals[j]

\* C2 amended: BatchInfo is a partition of the sample indices, two samples
\* share a list exactly when their labels are equal after the float32
\* coercion, and n_batch is the number of distinct coerced labels.
C2_PartitionOfCoercedLabels ==
    InfoBuilt =>
        /\ IsPartition(info_dict)
        /\ \A i, j \in Samples :
             SameCoercedLabel(i, j) <=>
               \E k \in DOMAIN info_dict.batch_info :
                  {i - 1, j - 1} \subseteq Range(info_dict.batch_info[k])
        /\ \E reps \in SUBSET Samples :
             /\ Cardinality(reps) = info_dict.n_batch
             /\ \A i \in Samples : \E r \in reps : SameCoercedLabel(i, r)
             /\ \A r1, r2 \in reps : SameCoercedLabel(r1, r2) => r1 = r2

\* C2 witness: BatchInfo was built for two batches of two samples each,
\* interleaved, from str labels.
C2_Witness ==
    /\ InfoBuilt
    /\ InputLabels.kind = "str"
    /\ info_dict.batch_info = <<<<1, 2>>, <<0, 3>>>>

\* C3: once BatchInfo holds a batch with fewer than 2 samples, combat raises
\* the validation error of line 85, make_design_matrix and the later stages
\* are never invoked and nothing is returned.
C3_SingletonRejected ==
    (InfoBuilt /\ \E j \in DOMAIN info_dict.sample_per_batch :
                     info_dict.sample_per_batch[j] < 2) =>
        /\ pc \in {"L84", "raised"}
        /\ pc = "raised" => error = "ValueError: Cannot have "
        /\ calls = <<>>
        /\ design = <<>>
        /\ shapes = NoShapes
        /\ result = <<>>

\* C3 witness: combat raised on a labelling with a batch of one sample.
C3_Witness ==
    /\ pc = "raised"
    /\ error = "ValueError: Cannot have "
    /\ \E j \in DOMAIN info_dict.sample_per_batch : info_dict.sample_per_batch[j] = 1
    /\ \E j \in DOMAIN info_dict.sample_per_batch : info_dict.sample_per_batch[j] > 1

\* C4: when covars is no DataFrame, combat raises before anything else:
\* nothing is coerced, relabelled, summarised or run, whatever the other
\* arguments.
C4_TypeErrorFirst ==
    ~arg.covars.isdf =>
        /\ pc \in {"L41", "raised"}
        /\ pc = "raised" => error = "ValueError: covars must be a pandas DataFrame"
        /\ covars = <<>>
        /\ covar_labels = <<>>
        /\ discrete_cols = <<>>
        /\ continuous_cols = <<>>
        /\ data = arg.data
        /\ col_idx = NoCols
        /\ info_dict = NoInfo
        /\ calls = <<>>
        /\ design = <<>>
        /\ shapes = NoShapes
        /\ result = <<>>

\* C4 witness: combat raised on a raw matrix passed with column arguments
\* and data that would otherwise fail later.
C4_Witness ==
    /\ ~arg.covars.isdf
    /\ pc = "raised"
    /\ arg.continuous_cols.kind = "str"
    /\ arg.data.kind = "list"

\* the number of distinct values (levels) of column c of the covariates
Levels(c) == Cardinality(Range(covars[c + 1].vals))

\* the 0-based rank of sample s's value among the levels of column c
LevelRank(c, s) ==
    Cardinality({k \in ColKeys(covars[c + 1]) :
                    k < SortKey(covars[c + 1], covars[c + 1].vals[s])})

\* the number a cell of a numerical column stands for
CellNumber(c, s) ==
    IF covars[c + 1].kind = "num" THEN Float32(covars[c + 1].vals[s])
    ELSE Float32(ParseFloat(covars[c + 1].vals[s]))

\* columns the first k categorical covariates take in the design matrix
CatWidth(k) == SumSeq([n \in 1..k |-> Levels(col_idx.cat_cols[n]) - 1])

DesignBuilt == design # <<>>

\* C5: the design matrix has S rows and B + sum(levels - 1) + #continuous
\* columns: the full one-hot of batch first, then each discrete covariate's
\* one-hot without its first level in input order, then the continuous
\* covariates in input order.
C5_DesignLayout ==
    DesignBuilt =>
        LET B == Levels(col_idx.batch_col)
            nc == Len(col_idx.cat_cols)
            nn == Len(col_idx.num_cols)
        IN  /\ Len(design) = NumSamples
            /\ \A s \in Samples :
                 /\ Len(design[s]) = B + CatWidth(nc) + nn
                 /\ \A c \in 1..B :
                      design[s][c] =
                        IF LevelRank(col_idx.batch_col, s) = c - 1 THEN 1 ELSE 0
                 /\ \A k \in 1..nc :
                      \A l \in 1..(Levels(col_idx.cat_cols[k]) - 1) :
                         design[s][B + CatWidth(k - 1) + l] =
                           IF LevelRank(col_idx.cat_cols[k], s) = l THEN 1 ELSE 0
                 /\ \A k \in 1..nn :
                      design[s][B + CatWidth(nc) + k] =
                        CellNumber(col_idx.num_cols[k], s)

\* C5 witness: a design matrix was built from two batches, two discrete
\* covariates (the three-level one first) and two continuous ones.
C5_Witness ==
    /\ DesignBuilt
    /\ Levels(col_idx.batch_col) = 2
    /\ col_idx.cat_cols = <<2, 1>>
    /\ Levels(1) = 2
    /\ col_idx.num_cols = <<4, 3>>
    /\ Len(design[1]) = 7

\* C6 as claimed: a column argument given as a single str is taken as the
\* one-element list of that name, and its column is resolved.
C6_StrNamesOneColumn ==
    (arg.covars.isdf /\ pc \notin {"L41", "L45"}) =>
        /\ arg.discrete_cols.kind = "str" =>
             discrete_cols = <<arg.discrete_cols.val>>
        /\ arg.continuous_cols.kind = "str" =>
             continuous_cols = <<arg.continuous_cols.val>>
        /\ error # "IndexError: index 0 is out of bounds"

\* ------------------------------------------------------------------- C7
\* every feature has pooled variance other than 0, so that standardizing
\* and rescaling alone give the data back
RoundTrips == \A f \in DOMAIN std.var_pooled : std.var_pooled[f][1] # Q(0)

\* C7 as claimed: when all samples belong to one batch, combat returns the
\* values of its input data.
C7_SingleBatchNoOp ==
    (pc = "returned" /\ info_dict.n_batch = 1 /\ RoundTrips) => out = MT(x_data)

\* ------------------------------------------------------------------- C8
\* |new - old| / |old|
RelativeChange(new, old) == QDiv(QAbs(QSub(new, old)), QAbs(old))

\* it_sol has returned from a pass of the loop in which every value, old and
\* new, is finite and no old value is 0
FiniteExit ==
    /\ sol.pc = "returned"
    /\ \A f \in DOMAIN sol.g_new :
         /\ IsFinite(sol.g_prev[f]) /\ sol.g_prev[f] # Q(0)
         /\ IsFinite(sol.d_prev[f]) /\ sol.d_prev[f] # Q(0)
         /\ IsFinite(sol.g_new[f])
         /\ IsFinite(sol.d_new[f])

\* C8 as claimed: it_sol leaves its loop only when, for every feature, the
\* relative changes |g_new - g_old| / |g_old| and |d_new - d_old| / |d_old|
\* of the last pass are at most conv.
C8_ExitOnlyWhenConverged ==
    FiniteExit =>
        \A f \in DOMAIN sol.g_new :
            /\ QLeq(RelativeChange(sol.g_new[f], sol.g_prev[f]), sol.args.conv)
            /\ QLeq(RelativeChange(sol.d_new[f], sol.d_prev[f]), sol.args.conv)

\* ------------------------------------------------------------------- C9
\* the batch (1-based position in batch_info) that holds sample k (1-based)
BatchOf(k) ==
    CHOOSE j \in DOMAIN info_dict.batch_info : k - 1 \in Range(info_dict.batch_info[j])

\* (s_data[f, s] - gamma_star[j, f]) / sqrt(delta_star[j, f])
AdjustedValue(f, k) ==
    QDiv(QSub(adj.s_data[f][k], adj.gamma_star[BatchOf(k)][f]),
         QSqrt(adj.delta_star[BatchOf(k)][f]))

\* every entry of the batches already processed was written once, no other
\* entry was written
WrittenOnce ==
    \A f \in DOMAIN adj.writes : \A k \in DOMAIN adj.writes[f] :
        adj.writes[f][k] = IF BatchOf(k) < adj.j THEN 1 ELSE 0

\* the entries hold the adjusted value once their batch is processed and
\* the standardized value until then
ValuesAdjusted ==
    \A f \in DOMAIN adj.bayesdata : \A k \in DOMAIN adj.bayesdata[f] :
        adj.bayesdata[f][k] =
            IF BatchOf(k) < adj.j THEN AdjustedValue(f, k) ELSE adj.s_data[f][k]

RECURSIVE AdjustInOrder(_, _)
\* the array after the loop passes for the batches of order, in that order
AdjustInOrder(bayesdata, order) ==
    IF order = <<>> THEN bayesdata
    ELSE AdjustInOrder(AdjustStep(bayesdata, QMat(design), adj.gamma_star,
                                  adj.delta_star, info_dict, Head(order)),
                       Tail(order))

BatchOrders ==
    {p \in [1..info_dict.n_batch -> 1..info_dict.n_batch] :
        \A i, j \in 1..info_dict.n_batch : p[i] = p[j] => i = j}

\* every order of the batches gives the matrix the order 1..B gives, from
\* the data the loop starts on
OrderIndependent ==
    adj.j = 1 =>
      \A p \in BatchOrders :
          AdjustInOrder(adj.s_data, p)
            = AdjustInOrder(adj.s_data, [i \in 1..info_dict.n_batch |-> i])

GammaStarFinite ==
    \A j \in DOMAIN adj.gamma_star : \A f \in DOMAIN adj.gamma_star[j] :
        IsFinite(adj.gamma_star[j][f])

RowMean(row) == QDiv(QSum(row), Q(Len(row)))

RowVariance(row) ==
    QDiv(QSum(Array1([f \in DOMAIN row |->
                        QMul(QSub(row[f], RowMean(row)), QSub(row[f], RowMean(row)))])),
         Q(Len(row) - 1))

\* the columns of the samples of batch i, in s_data
BatchColumnsOf(i) ==
    Array2([f \in DOMAIN std.s_data |->
              [n \in DOMAIN info_dict.batch_info[i] |->
                 std.s_data[f][info_dict.batch_info[i][n] + 1]]])

PriorsPerBatch ==
    /\ Len(LS_dict.gamma_hat) = info_dict.n_batch
    /\ Len(LS_dict.delta_hat) = info_dict.n_batch
    /\ Len(LS_dict.gamma_bar) = info_dict.n_batch
    /\ Len(LS_dict.t2) = info_dict.n_batch
    /\ Len(LS_dict.a_prior) = info_dict.n_batch
    /\ Len(LS_dict.b_prior) = info_dict.n_batch
    /\ \A i \in 1..info_dict.n_batch :
         /\ Len(LS_dict.gamma_hat[i]) = Len(std.s_data)
         /\ LS_dict.gamma_bar[i] = RowMean(LS_dict.gamma_hat[i])
         /\ LS_dict.t2[i] = RowVariance(LS_dict.gamma_hat[i])

SolverGetsOwnBatch ==
    sol.pc \in {"loop", "returned"} =>
        /\ sol.batch = fpa.i
        /\ sol.args.sdat = BatchColumnsOf(sol.batch)
        /\ sol.args.g_hat = LS_dict.gamma_hat[sol.batch]
        /\ sol.args.d_hat = LS_dict.delta_hat[sol.batch]
        /\ sol.args.g_bar = LS_dict.gamma_bar[sol.batch]
        /\ sol.args.t2 = LS_dict.t2[sol.batch]
        /\ sol.args.a = LS_dict.a_prior[sol.batch]
        /\ sol.args.b = LS_dict.b_prior[sol.batch]

RowsInBatchOrder ==
    pc \in {"fpa", "L112"} =>
        /\ fpa.solved = [i \in 1..(fpa.i - 1) |-> i]
        /\ Len(fpa.gamma_star) = fpa.i - 1
        /\ Len(fpa.delta_star) = fpa.i - 1
        /\ pc = "L112" => fpa.i - 1 = info_dict.n_batch

\* C10: fit_LS_model_and_find_priors gives one gamma_bar, t2, a_prior and
\* b_prior per batch, gamma_bar[i] and t2[i] being the mean and the ddof=1
\* variance of row i of gamma_hat; the solver of batch i gets the i-th of
\* each, row i of gamma_hat, delta_hat[i] and the columns of batch i's
\* samples; gamma_star and delta_star get their rows in batch order.
C10_PriorsPerBatch ==
    pc \in {"L106", "fpa", "L112"} =>
        /\ PriorsPerBatch
        /\ SolverGetsOwnBatch
        /\ RowsInBatchOrder

\* C10 witness: find_parametric_adjustments has returned the rows of two
\* batches whose gamma_hat rows and finite gamma_bar differ.
C10_Witness ==
    /\ pc = "L112"
    /\ info_dict.n_batch = 2
    /\ fpa.solved = <<1, 2>>
    /\ IsFinite(LS_dict.gamma_bar[1])
    /\ LS_dict.gamma_bar[1] # LS_dict.gamma_bar[2]
    /\ LS_dict.gamma_hat[1] # LS_dict.gamma_hat[2]

====
